---- MODULE Spec2Model ----
(***************************************************************************)
(* A model of the drag-to-reschedule hook useDragMoveEvent                 *)
(* (src/src/hooks/useDragMoveEvent.tsx) as it is driven by its hosts       *)
(* DraggableCalendarEvent and RecurringEventDialog.                        *)
(*                                                                         *)
(* Time is counted in whole minutes since 1970-01-01T00:00 local time; the *)
(* seconds and milliseconds of a Date are carried unchanged by every       *)
(* operation of the hook and are left out.  Local time has a fixed offset  *)
(* (no daylight-saving transitions).                                       *)
(*                                                                         *)
(* React is modelled at the level of its documented contract: a state      *)
(* setter called from a native listener queues an update; the component    *)
(* sees the new value at its next render; a render pass (render, commit,   *)
(* cleanup and re-run of the effects whose dependencies changed) is one    *)
(* step that may happen at any time between two input events.              *)
(*                                                                         *)
(* Spec is one mounted engine on one node under every input of the drag    *)
(* arithmetic.  SpecHost is the life of the engine in its host: mount and   *)
(* unmount, the node bound through dragRef, the listeners on the node and   *)
(* on the window, and a second engine instance that shares                  *)
(* document.body.style.cursor and the window.                               *)
(***************************************************************************)
EXTENDS Integers, Sequences, FiniteSets, TLC

VARIABLES
  event,            \* the `event` argument of the last render (EventLike | null)
  onDragEnd,        \* TRUE iff the host supplies the commit callback
  lockTime,         \* options.lockTime ?? false
  pxPerDay,         \* options.pxPerDay ?? 40
  pxPerMinute,      \* options.pxPerMinute ?? 1
  draggingRef,      \* draggingRef.current
  startPosRef,      \* startPosRef.current
  originalStartRef, \* originalStartRef.current
  originalEndRef,   \* originalEndRef.current
  hookState,        \* the three useState cells, queued updates applied
  isDragging,       \* isDragging as seen (and returned) by the last render
  previewStart,     \* previewStart as seen (and returned) by the last render
  previewEnd,       \* previewEnd as seen (and returned) by the last render
  handlers,         \* what the attached listeners captured from their render
  cursor,           \* document.body.style.cursor
  cursorPrev,       \* `prev` captured by the cursor effect now in force
  calls,            \* invocations of onDragEnd since the last press
  lastEv,           \* the step taken last, draggingRef as it found it, and
                    \* whether a move has published a preview since the
                    \* press that started the session
  lastMove,         \* the pointer position and hovered attribute that the
                    \* queued preview was computed from, if there is one
  mounted,          \* TRUE while the component that calls the hook is mounted
  nodeRef,          \* nodeRef.current
  listeners,        \* the handlers attached by this instance: how many on
                    \* each node, how many on the window, and the node the
                    \* cleanup of the effect in force removes them from
  peer              \* a second instance of the hook: mounted, its isDragging
                    \* cell, isDragging at its last render, the `prev` of its
                    \* cursor effect

vars == << event, onDragEnd, lockTime, pxPerDay, pxPerMinute, draggingRef,
           startPosRef, originalStartRef, originalEndRef, hookState,
           isDragging, previewStart, previewEnd, handlers, cursor, cursorPrev,
           calls, lastEv, lastMove, mounted, nodeRef, listeners, peer >>

-----------------------------------------------------------------------------
(* JavaScript values *)

\* Date | null.  An Invalid Date is a Date object whose time value is NaN.
Null == [kind |-> "null", t |-> 0]
InvalidDate == [kind |-> "invalid", t |-> 0]
DateOf(t) == [kind |-> "date", t |-> t]

\* number | undefined, as produced by Number() and by array destructuring.
NaN == [kind |-> "NaN", v |-> 0]
Undefined == [kind |-> "undefined", v |-> 0]
Num(v) == [kind |-> "number", v |-> v]

\* {x, y} | null
NullPos == [isNull |-> TRUE, x |-> 0, y |-> 0]
Pos(x, y) == [isNull |-> FALSE, x |-> x, y |-> y]

\* HTMLElement | null: the nodes a host may render for the engine.
NoNode == "null"
Node1 == "node1"
Node2 == "node2"
Nodes == { Node1, Node2 }

\* An attribute value: absent (null/undefined) or a string, kept as the
\* sequence of its characters.
NoAttr == [present |-> FALSE, s |-> << >>]
Attr(s) == [present |-> TRUE, s |-> s]

\* `if (x)` on a Date | null: every Date object, valid or not, is truthy.
Truthy(d) == d.kind # "null"

-----------------------------------------------------------------------------
(* Calendar arithmetic of the built-in Date (proleptic Gregorian) *)

\* Day number (days since 1970-01-01) of the civil date y-m-d, m in 1..12;
\* d may lie outside the month and then counts on linearly.
DaysFromCivil(y, m, d) ==
  LET yy  == IF m <= 2 THEN y - 1 ELSE y
      era == yy \div 400
      yoe == yy - era * 400
      mp  == IF m > 2 THEN m - 3 ELSE m + 9
      doy == (153 * mp + 2) \div 5 + d - 1
      doe == yoe * 365 + yoe \div 4 - yoe \div 100 + doy
  IN  era * 146097 + doe - 719468

\* <<year, month (1..12), day>> of a day number.
CivilFromDays(z) ==
  LET zz  == z + 719468
      era == zz \div 146097
      doe == zz - era * 146097
      yoe == (doe - doe \div 1460 + doe \div 36524 - doe \div 146096) \div 365
      doy == doe - (365 * yoe + yoe \div 4 - yoe \div 100)
      mp  == (5 * doy + 2) \div 153
      d   == doy - (153 * mp + 2) \div 5 + 1
      m   == IF mp < 10 THEN mp + 3 ELSE mp - 9
      y   == yoe + era * 400 + (IF m <= 2 THEN 1 ELSE 0)
  IN  << y, m, d >>

\* ECMAScript MakeDay(year, month, date) with a zero-based month that may
\* overflow into the neighbouring years.
MakeDay(year, month0, date) ==
  DaysFromCivil(year + month0 \div 12, (month0 % 12) + 1, 1) + date - 1

Day(t) == t \div 1440
TimeWithinDay(t) == t % 1440
getFullYear(t) == CivilFromDays(Day(t))[1]
getMonth(t) == CivilFromDays(Day(t))[2] - 1
getDate(t) == CivilFromDays(Day(t))[3]
getHours(t) == TimeWithinDay(t) \div 60
getMinutes(t) == TimeWithinDay(t) % 60

\* new Date(year, monthIndex, day, hours, minutes, 0, 0)
MakeLocal(y, m, d, hh, mi) == MakeDay(y, m - 1, d) * 1440 + hh * 60 + mi

-----------------------------------------------------------------------------
(* Bounds and inputs *)

\* No more than this many onDragEnd invocations are recorded per press.
MaxCalls == 2

\* The values of data-calendar-date met under the pointer: none (no element
\* under the pointer, or no ancestor with the attribute), a date, a string
\* that is no number, a date cut short, and the empty string.
Attr_2024_03_15 == Attr(<< "2","0","2","4","-","0","3","-","1","5" >>)
Attr_abc        == Attr(<< "a","b","c" >>)
Attr_2024_03    == Attr(<< "2","0","2","4","-","0","3" >>)
Attr_empty      == Attr(<< >>)

ValidZones == { Attr_2024_03_15 }
MalformedZones == { Attr_abc, Attr_2024_03 }
HoverAttrs == { NoAttr, Attr_empty } \cup ValidZones \cup MalformedZones

\* The source events of the hosts.  EventA is the event of the spec's
\* scenarios; EventB starts late on the day before a leap day and ends after
\* midnight.
NoEvent == [isNull |-> TRUE, start |-> 0, end |-> 0]
EventA == [isNull |-> FALSE, start |-> MakeLocal(2024, 6, 10, 9, 0),
                             end   |-> MakeLocal(2024, 6, 10, 10, 0)]
EventB == [isNull |-> FALSE, start |-> MakeLocal(2024, 2, 28, 23, 40),
                             end   |-> MakeLocal(2024, 2, 29, 1, 0)]
Events == { EventA, EventB }

\* Where the pointer is pressed, and where it moves to: 30 px to the right
\* (30 minutes at 1 px per minute, 7.5 at 4) and a choice of heights above
\* and below the press (-1.5, 1, 0.49 and 1.5 days at 40 or 100 px per day
\* among them).
PressPoints == { Pos(100, 100) }
MoveXs == { 100, 130 }
MoveYs == { 100 + d : d \in { -60, 0, 40, 49, 150 } }
PxPerDaySet == { 40, 100 }
PxPerMinuteSet == { 1, 4 }

\* The inputs of SpecHost: one event or none, the default options, a press
\* at either of two points with the primary or the secondary button or with
\* one or two touch points, one move, and either of two nodes or none.
HostEvents == { EventA, NoEvent }
HostPressPoints == { Pos(100, 100), Pos(100, 140) }
Buttons == { 0, 2 }
HostTouches ==
  { << p >> : p \in HostPressPoints } \cup { << Pos(100, 100), Pos(100, 140) >> }
HostMoves == { << 100, 140, NoAttr >> }

-----------------------------------------------------------------------------
(* The snap target: data-calendar-date to year, month, day (lines 97-101) *)

IndexOfDash(s) ==
  IF \E i \in 1 .. Len(s) : s[i] = "-"
    THEN CHOOSE i \in 1 .. Len(s) : s[i] = "-" /\ \A j \in 1 .. i - 1 : s[j] # "-"
    ELSE 0

\* dateAttr.split('-')
RECURSIVE Split(_)
Split(s) ==
  IF IndexOfDash(s) = 0
    THEN << s >>
    ELSE << SubSeq(s, 1, IndexOfDash(s) - 1) >>
           \o Split(SubSeq(s, IndexOfDash(s) + 1, Len(s)))

Digits == << "0", "1", "2", "3", "4", "5", "6", "7", "8", "9" >>
IsDigit(c) == \E i \in 1 .. 10 : Digits[i] = c
DigitValue(c) == (CHOOSE i \in 1 .. 10 : Digits[i] = c) - 1

RECURSIVE Decimal(_)
Decimal(s) ==
  IF s = << >> THEN 0
  ELSE 10 * Decimal(SubSeq(s, 1, Len(s) - 1)) + DigitValue(s[Len(s)])

\* Number(value) on a string of digits and letters: the empty string is 0,
\* a string of digits its decimal value, anything else NaN.
Number(s) ==
  IF \A i \in 1 .. Len(s) : IsDigit(s[i]) THEN Num(Decimal(s)) ELSE NaN

\* const [year, month, day] = dateAttr.split('-').map(Number): a missing
\* element is undefined.
Part(s, i) == IF i <= Len(Split(s)) THEN Number(Split(s)[i]) ELSE Undefined

\* The destructured [year, month, day] of every attribute value met.
Parsed == [a \in HoverAttrs |-> << Part(a.s, 1), Part(a.s, 2), Part(a.s, 3) >>]

\* Number.isNaN(x): no coercion, so undefined is not NaN.
NumberIsNaN(x) == x.kind = "NaN"

\* month - 1, with ToNumber(undefined) = NaN.
Minus1(x) == IF x.kind = "number" THEN Num(x.v - 1) ELSE NaN

\* date.setFullYear(year, month, day) on a valid date: every argument goes
\* through ToNumber; a NaN makes the date invalid.
setFullYear(t, year, month0, day) ==
  IF year.kind = "number" /\ month0.kind = "number" /\ day.kind = "number"
    THEN DateOf(MakeDay(year.v, month0.v, day.v) * 1440 + TimeWithinDay(t))
    ELSE InvalidDate

\* date.setMinutes(minutes)
setMinutes(t, minutes) == Day(t) * 1440 + getHours(t) * 60 + minutes

\* date.setDate(dayOfMonth)
setDate(t, dayOfMonth) ==
  MakeDay(getFullYear(t), getMonth(t), dayOfMonth) * 1440 + TimeWithinDay(t)

\* A slip in MathRound: truncation (Math.floor) instead of rounding.
MathRound_Floor(a, b) == a \div b

\* Math.round(a / b) for b > 0: the nearest integer, a half going up.
MathRound(a, b) == (2 * a + b) \div (2 * b)

-----------------------------------------------------------------------------
(* The handlers of the listener effect (lines 67-161) *)

Ev(type) ==
  [type |-> type, wasDragging |-> draggingRef, moved |-> lastEv.moved,
   primary |-> TRUE]

\* The press that starts a session has no move behind it.  primary: the
\* press was a primary-button mousedown or a touchstart with one touch.
Pressed(primary) ==
  [Ev("press") EXCEPT !.moved = IF Truthy(originalStartRef) /\ ~draggingRef
                                  THEN FALSE ELSE lastEv.moved,
                      !.primary = primary]

\* A move that publishes a preview is a move of the session.
Moved ==
  [Ev("move") EXCEPT !.moved =
     \/ lastEv.moved
     \/ draggingRef /\ Truthy(originalStartRef) /\ Truthy(originalEndRef)]

NoMove == [isNull |-> TRUE, x |-> 0, y |-> 0, attr |-> NoAttr]
MoveTo(x, y, attr) == [isNull |-> FALSE, x |-> x, y |-> y, attr |-> attr]

\* A slip in CandidateStart: the day offset is added whether or not a
\* drop-zone overwrote the date.
CandidateStart_SnapPlusOffset(original, start, lock, ppd, ppm, clientX, clientY, dateAttr) ==
  LET deltaX == clientX - start.x
      deltaY == clientY - start.y
      dayOffset == MathRound(deltaY, ppd)
      minuteOffset == IF lock THEN 0 ELSE MathRound(deltaX, ppm)
      moved == IF ~lock
                 THEN setMinutes(original, getMinutes(original) + minuteOffset)
                 ELSE original
      year == Parsed[dateAttr][1]
      month == Parsed[dateAttr][2]
      day == Parsed[dateAttr][3]
      snapped ==
        IF dateAttr.present /\ dateAttr.s # << >>
             /\ ~NumberIsNaN(year) /\ ~NumberIsNaN(month) /\ ~NumberIsNaN(day)
          THEN setFullYear(moved, year, Minus1(month), day)
          ELSE DateOf(moved)
  IN  IF snapped.kind = "date"
        THEN DateOf(setDate(snapped.t, getDate(snapped.t) + dayOffset))
        ELSE snapped

\* The candidate start of onMove (lines 79-104), from the refs and options
\* it reads: the original start, the press position, lockTime, pxPerDay and
\* pxPerMinute.
CandidateStart(original, start, lock, ppd, ppm, clientX, clientY, dateAttr) ==
  LET deltaX == clientX - start.x
      deltaY == clientY - start.y
      dayOffset == MathRound(deltaY, ppd)
      minuteOffset == IF lock THEN 0 ELSE MathRound(deltaX, ppm)
      moved == IF ~lock
                 THEN setMinutes(original, getMinutes(original) + minuteOffset)
                 ELSE original
      year == Parsed[dateAttr][1]
      month == Parsed[dateAttr][2]
      day == Parsed[dateAttr][3]
  IN  IF dateAttr.present /\ dateAttr.s # << >>
        THEN IF ~NumberIsNaN(year) /\ ~NumberIsNaN(month) /\ ~NumberIsNaN(day)
               THEN setFullYear(moved, year, Minus1(month), day)
               ELSE DateOf(moved)
        ELSE DateOf(setDate(moved, getDate(moved) + dayOffset))

\* CandidateStart over the inputs of the model, tabulated.
CandidateStarts ==
  [ original \in { e.start : e \in Events } |->
    [ start \in PressPoints \cup HostPressPoints |->
      [ lock \in BOOLEAN |->
        [ ppd \in PxPerDaySet |->
          [ ppm \in PxPerMinuteSet |->
            [ clientX \in MoveXs |->
              [ clientY \in MoveYs |->
                [ dateAttr \in HoverAttrs |->
                  CandidateStart(original, start, lock, ppd, ppm,
                                 clientX, clientY, dateAttr) ]]]]]]]]

NewStart(clientX, clientY, dateAttr) ==
  CandidateStarts[originalStartRef.t][startPosRef][lockTime][pxPerDay]
                 [pxPerMinute][clientX][clientY][dateAttr]

\* The candidate end of onMove (lines 106-107): start plus the duration of
\* the originals, in elapsed time; NaN plus a number is NaN.
NewEnd(newStart) ==
  IF newStart.kind = "date"
    THEN DateOf(newStart.t + (originalEndRef.t - originalStartRef.t))
    ELSE InvalidDate

\* A slip in onMove: the candidate is derived from the preview of the move
\* before, when there is one, instead of the original start.
onMove_Drift(clientX, clientY, dateAttr) ==
  IF ~draggingRef \/ ~Truthy(originalStartRef) \/ ~Truthy(originalEndRef)
    THEN UNCHANGED << hookState, lastMove >>
    ELSE LET base == IF hookState.previewStart.kind = "date"
                       THEN hookState.previewStart.t
                       ELSE originalStartRef.t
             newStart == CandidateStart(base, startPosRef, lockTime, pxPerDay,
                                        pxPerMinute, clientX, clientY, dateAttr)
             newEnd == NewEnd(newStart)
         IN  /\ hookState' = [hookState EXCEPT !.previewStart = newStart,
                                               !.previewEnd = newEnd]
             /\ lastMove' = MoveTo(clientX, clientY, dateAttr)

\* onMove (lines 77-111)
onMove(clientX, clientY, dateAttr) ==
  IF ~draggingRef \/ ~Truthy(originalStartRef) \/ ~Truthy(originalEndRef)
    THEN UNCHANGED << hookState, lastMove >>
    ELSE LET newStart == NewStart(clientX, clientY, dateAttr)
             newEnd == NewEnd(newStart)
         IN  /\ hookState' = [hookState EXCEPT !.previewStart = newStart,
                                               !.previewEnd = newEnd]
             /\ lastMove' = MoveTo(clientX, clientY, dateAttr)

\* A slip in startDrag: the press is taken without known originals.
startDrag_NoGuard(pos) ==
  /\ draggingRef' = TRUE
  /\ startPosRef' = pos
  /\ hookState' = [hookState EXCEPT !.isDragging = TRUE]
  /\ calls' = << >>

\* The body shared by handleMouseDown and handleTouchStart (lines 113-128).
startDrag(pos) ==
  IF ~Truthy(originalStartRef)
    THEN UNCHANGED << draggingRef, startPosRef, hookState, calls >>
    ELSE /\ draggingRef' = TRUE
         /\ startPosRef' = pos
         /\ hookState' = [hookState EXCEPT !.isDragging = TRUE]
         /\ calls' = << >>

\* endDrag (lines 143-157)
endDrag ==
  IF ~draggingRef
    THEN UNCHANGED << draggingRef, startPosRef, hookState, calls, lastMove >>
    ELSE LET finalStart == handlers.previewStart
             finalEnd == handlers.previewEnd
         IN  /\ draggingRef' = FALSE
             /\ calls' = IF Truthy(finalStart) /\ Truthy(finalEnd) /\ handlers.onDragEnd
                           THEN Append(calls, << handlers.previewStart,
                                                 handlers.previewEnd >>)
                           ELSE calls
             /\ hookState' = [isDragging |-> FALSE, previewStart |-> Null,
                              previewEnd |-> Null]
             /\ startPosRef' = NullPos
             /\ lastMove' = NoMove

Props == << event, onDragEnd, lockTime, pxPerDay, pxPerMinute >>
Rendered == << isDragging, previewStart, previewEnd, handlers, cursor, cursorPrev >>
Host == << mounted, nodeRef, listeners >>

\* addEventListener / removeEventListener (lines 163-179), as the number of
\* handler sets of this instance on each target.
NoListeners == [node |-> [n \in Nodes |-> 0], window |-> 0, el |-> NoNode]
OnNode(n) == listeners.node[n] > 0
OnWindow == listeners.window > 0

\* The window listeners of the second instance: its endDrag.
peerEndDrag == peer' = [peer EXCEPT !.dragging = FALSE]

\* mousedown on node n with the given button (0 is the primary one).
handleMouseDown(n, pos, button) ==
  /\ OnNode(n)
  /\ startDrag(pos)
  /\ lastEv' = Pressed(button = 0)
  /\ UNCHANGED << Props, Rendered, originalStartRef, originalEndRef, lastMove,
                  Host, peer >>

\* touchstart on node n with the given touch points; touches[1] is the
\* code's e.touches[0].
handleTouchStart(n, touches) ==
  /\ OnNode(n)
  /\ startDrag(touches[1])
  /\ lastEv' = Pressed(Len(touches) = 1)
  /\ UNCHANGED << Props, Rendered, originalStartRef, originalEndRef, lastMove,
                  Host, peer >>

handleMouseMove(clientX, clientY, dateAttr) ==
  /\ OnWindow
  /\ IF ~draggingRef THEN UNCHANGED << hookState, lastMove >>
                     ELSE onMove(clientX, clientY, dateAttr)
  /\ lastEv' = Moved
  /\ UNCHANGED << Props, Rendered, draggingRef, startPosRef, originalStartRef,
                  originalEndRef, calls, Host, peer >>

handleTouchMove(clientX, clientY, dateAttr) ==
  /\ OnWindow
  /\ IF ~draggingRef THEN UNCHANGED << hookState, lastMove >>
                     ELSE onMove(clientX, clientY, dateAttr)
  /\ lastEv' = Moved
  /\ UNCHANGED << Props, Rendered, draggingRef, startPosRef, originalStartRef,
                  originalEndRef, calls, Host, peer >>

\* A release on the window reaches the listeners of every instance.
Release ==
  /\ Len(calls) < MaxCalls
  /\ OnWindow \/ peer.mounted
  /\ IF OnWindow
       THEN endDrag
       ELSE UNCHANGED << draggingRef, startPosRef, hookState, calls, lastMove >>
  /\ peerEndDrag
  /\ UNCHANGED << Props, Rendered, originalStartRef, originalEndRef, Host >>

handleMouseUp ==
  /\ Release
  /\ lastEv' = Ev("mouseup")

handleTouchEnd ==
  /\ Release
  /\ lastEv' = Ev("touchend")

handleTouchCancel ==
  /\ Release
  /\ lastEv' = Ev("touchcancel")

-----------------------------------------------------------------------------
(* A render pass of the host: the hook body, then its three effects *)

\* A slip in the event effect: the originals are set once and kept.
EventEffect_KeepOriginals(ev, cells) ==
  /\ UNCHANGED << originalStartRef, originalEndRef >>
  /\ hookState' = [cells EXCEPT !.previewStart = Null, !.previewEnd = Null]
  /\ lastMove' = NoMove

\* The event effect (lines 54-65), run when `event` is a new object.
EventEffect(ev, cells) ==
  /\ originalStartRef' = IF ~ev.isNull THEN DateOf(ev.start) ELSE Null
  /\ originalEndRef' = IF ~ev.isNull THEN DateOf(ev.end) ELSE Null
  /\ hookState' = [cells EXCEPT !.previewStart = Null, !.previewEnd = Null]
  /\ lastMove' = NoMove

\* A slip in ListenerCleanup: nothing is removed.
ListenerCleanup_Nothing(l) == [l EXCEPT !.el = NoNode]

\* The cleanup of the listener effect (lines 171-179): the handlers of the
\* run in force are removed from its `el` and from the window.  A run that
\* returned at line 69 has no cleanup.
ListenerCleanup(l) ==
  IF l.el = NoNode
    THEN l
    ELSE [node |-> [l.node EXCEPT ![l.el] = @ - 1],
          window |-> l.window - 1,
          el |-> NoNode]

\* The body of the listener effect (lines 68-69 and 163-169) with
\* el = nodeRef.current.
ListenerAttach(l, el) ==
  IF el = NoNode
    THEN l
    ELSE [node |-> [l.node EXCEPT ![el] = @ + 1],
          window |-> l.window + 1,
          el |-> el]

\* The listener effect (lines 67-180): the listeners of the previous run are
\* removed and listeners closing over this render's values are attached.
ListenerEffect ==
  /\ handlers' = [previewStart |-> previewStart', previewEnd |-> previewEnd',
                  onDragEnd |-> onDragEnd]
  /\ listeners' = ListenerAttach(ListenerCleanup(listeners), nodeRef')

\* The dependency list of the listener effect (line 180).  A Date is compared
\* by identity; two previews of the same render chain with equal time values
\* are indistinguishable to every reader, so values are compared here.
ListenerDepsChanged(newCallback) ==
  \/ newCallback
  \/ previewStart' # previewStart
  \/ previewEnd' # previewEnd

\* The cursor effect (lines 183-194): cleanup of the previous run, then the
\* body.
CursorEffect ==
  LET restored == cursorPrev            \* cleanup: cursor = prev
      prev == restored                  \* body: prev = cursor || ''
  IN  /\ cursorPrev' = prev
      /\ cursor' = IF isDragging' THEN "grabbing" ELSE prev

\* dragRef as the hosts use it: DraggableCalendarEvent passes it as the ref
\* of its Box, RecurringEventDialog calls it with the element it renders
\* while open and not at all otherwise (node = NoNode).
dragRef(node) == nodeRef' = IF node = NoNode THEN nodeRef ELSE node

\* The host renders the component with `ev` as the event and `node` as the
\* element given to dragRef.  newEvent says that `ev` is a new object
\* (RecurringEventDialog builds one on every render, DraggableCalendarEvent
\* when date or times change); newCallback says the same of onDragEnd.
Render(ev, newEvent, newCallback, node) ==
  /\ mounted
  /\ (ev # event) => newEvent
  /\ (ev.isNull /\ event.isNull) => ~newEvent
  /\ event' = ev
  /\ isDragging' = hookState.isDragging
  /\ previewStart' = hookState.previewStart
  /\ previewEnd' = hookState.previewEnd
  /\ IF newEvent
       THEN EventEffect(ev, hookState)
       ELSE UNCHANGED << originalStartRef, originalEndRef, hookState, lastMove >>
  /\ dragRef(node)
  /\ IF ListenerDepsChanged(newCallback)
       THEN ListenerEffect
       ELSE UNCHANGED << handlers, listeners >>
  /\ IF isDragging' # isDragging
       THEN CursorEffect
       ELSE UNCHANGED << cursor, cursorPrev >>
  /\ lastEv' = Ev("render")
  /\ UNCHANGED << onDragEnd, lockTime, pxPerDay, pxPerMinute, draggingRef,
                  startPosRef, calls, mounted, peer >>

\* The values of a hook instance before its first effects.
NoCells == [isDragging |-> FALSE, previewStart |-> Null, previewEnd |-> Null]

\* The host mounts the component: the first render and its three effects.
Mount(ev, node) ==
  /\ ~mounted
  /\ mounted' = TRUE
  /\ event' = ev
  /\ draggingRef' = FALSE
  /\ startPosRef' = NullPos
  /\ isDragging' = FALSE
  /\ previewStart' = Null
  /\ previewEnd' = Null
  /\ EventEffect(ev, NoCells)
  /\ nodeRef' = node
  /\ handlers' = [previewStart |-> Null, previewEnd |-> Null,
                  onDragEnd |-> onDragEnd]
  /\ listeners' = ListenerAttach(NoListeners, node)
  /\ cursorPrev' = cursor
  /\ cursor' = cursor
  /\ lastEv' = Ev("mount")
  /\ UNCHANGED << onDragEnd, lockTime, pxPerDay, pxPerMinute, calls, peer >>

\* The host unmounts the component: the cleanups of the listener effect and
\* of the cursor effect run (lines 171-179 and 191-193) and the instance is
\* gone.
Unmount ==
  /\ mounted
  /\ mounted' = FALSE
  /\ listeners' = ListenerCleanup(listeners)
  /\ cursor' = cursorPrev
  /\ cursorPrev' = ""
  /\ nodeRef' = NoNode
  /\ draggingRef' = FALSE
  /\ startPosRef' = NullPos
  /\ originalStartRef' = Null
  /\ originalEndRef' = Null
  /\ hookState' = NoCells
  /\ isDragging' = FALSE
  /\ previewStart' = Null
  /\ previewEnd' = Null
  /\ handlers' = [previewStart |-> Null, previewEnd |-> Null,
                  onDragEnd |-> onDragEnd]
  /\ lastMove' = NoMove
  /\ lastEv' = Ev("unmount")
  /\ UNCHANGED << Props, calls, peer >>

-----------------------------------------------------------------------------
(* A second instance of the hook, as far as it shares the cursor *)

NoPeer == [mounted |-> FALSE, dragging |-> FALSE, isDragging |-> FALSE, prev |-> ""]

Engine == << draggingRef, startPosRef, originalStartRef, originalEndRef,
             hookState, isDragging, previewStart, previewEnd, handlers,
             cursorPrev, calls, lastMove >>

\* The second instance mounts: its cursor effect captures prev (line 184)
\* and, not dragging, writes it back (line 189).
PeerMount ==
  /\ ~peer.mounted
  /\ peer' = [mounted |-> TRUE, dragging |-> FALSE, isDragging |-> FALSE,
              prev |-> cursor]
  /\ lastEv' = Ev("peer")
  /\ UNCHANGED << Props, Engine, Host, cursor >>

\* The second instance unmounts: the cleanup of its cursor effect.
PeerUnmount ==
  /\ peer.mounted
  /\ cursor' = peer.prev
  /\ peer' = NoPeer
  /\ lastEv' = Ev("peer")
  /\ UNCHANGED << Props, Engine, Host >>

\* A press on the node of the second instance (setIsDragging(true)).
PeerPress ==
  /\ peer.mounted
  /\ ~peer.dragging
  /\ peer' = [peer EXCEPT !.dragging = TRUE]
  /\ lastEv' = Ev("peer")
  /\ UNCHANGED << Props, Engine, Host, cursor >>

\* The second instance renders with a changed isDragging: the cleanup of its
\* cursor effect, then the body.
PeerRender ==
  /\ peer.mounted
  /\ peer.isDragging # peer.dragging
  /\ LET prev == peer.prev
     IN  /\ peer' = [peer EXCEPT !.isDragging = peer.dragging, !.prev = prev]
         /\ cursor' = IF peer.dragging THEN "grabbing" ELSE prev
  /\ lastEv' = Ev("peer")
  /\ UNCHANGED << Props, Engine, Host >>

-----------------------------------------------------------------------------
(* The state after the mount: first render, then the three effects *)

Init ==
  /\ event \in Events \cup { NoEvent }
  /\ onDragEnd \in BOOLEAN
  /\ lockTime \in BOOLEAN
  /\ pxPerDay \in PxPerDaySet
  /\ pxPerMinute \in PxPerMinuteSet
  /\ draggingRef = FALSE
  /\ startPosRef = NullPos
  /\ originalStartRef = IF ~event.isNull THEN DateOf(event.start) ELSE Null
  /\ originalEndRef = IF ~event.isNull THEN DateOf(event.end) ELSE Null
  /\ hookState = [isDragging |-> FALSE, previewStart |-> Null, previewEnd |-> Null]
  /\ isDragging = FALSE
  /\ previewStart = Null
  /\ previewEnd = Null
  /\ handlers = [previewStart |-> Null, previewEnd |-> Null, onDragEnd |-> onDragEnd]
  /\ cursor = ""
  /\ cursorPrev = ""
  /\ calls = << >>
  /\ lastEv = [type |-> "mount", wasDragging |-> FALSE, moved |-> FALSE,
               primary |-> TRUE]
  /\ lastMove = NoMove
  /\ mounted = TRUE
  /\ nodeRef = Node1
  /\ listeners = ListenerAttach(NoListeners, Node1)
  /\ peer = NoPeer

Next ==
  \/ \E pos \in PressPoints : handleMouseDown(Node1, pos, 0)
  \/ \E pos \in PressPoints : handleTouchStart(Node1, << pos >>)
  \/ \E x \in MoveXs, y \in MoveYs, a \in HoverAttrs : handleMouseMove(x, y, a)
  \/ \E x \in MoveXs, y \in MoveYs, a \in HoverAttrs : handleTouchMove(x, y, a)
  \/ handleMouseUp
  \/ handleTouchEnd
  \/ handleTouchCancel
  \/ \E ev \in Events \cup { NoEvent }, newEvent \in BOOLEAN, newCallback \in BOOLEAN :
       Render(ev, newEvent, newCallback, Node1)

Spec == Init /\ [][Next]_vars

-----------------------------------------------------------------------------
(* The engine in its host *)

\* The state after the mount by a host that supplies a callback and the
\* default options, and renders a node at once (DraggableCalendarEvent) or
\* not (RecurringEventDialog while closed).
InitHost ==
  /\ event \in HostEvents
  /\ onDragEnd = TRUE
  /\ lockTime = FALSE
  /\ pxPerDay = 40
  /\ pxPerMinute = 1
  /\ draggingRef = FALSE
  /\ startPosRef = NullPos
  /\ originalStartRef = IF ~event.isNull THEN DateOf(event.start) ELSE Null
  /\ originalEndRef = IF ~event.isNull THEN DateOf(event.end) ELSE Null
  /\ hookState = NoCells
  /\ isDragging = FALSE
  /\ previewStart = Null
  /\ previewEnd = Null
  /\ handlers = [previewStart |-> Null, previewEnd |-> Null, onDragEnd |-> onDragEnd]
  /\ cursor = ""
  /\ cursorPrev = ""
  /\ calls = << >>
  /\ lastEv = [type |-> "mount", wasDragging |-> FALSE, moved |-> FALSE,
               primary |-> TRUE]
  /\ lastMove = NoMove
  /\ mounted = TRUE
  /\ nodeRef \in { NoNode, Node1 }
  /\ listeners = ListenerAttach(NoListeners, nodeRef)
  /\ peer = NoPeer

NextHost ==
  \/ \E n \in Nodes, pos \in HostPressPoints, button \in Buttons :
       handleMouseDown(n, pos, button)
  \/ \E n \in Nodes, touches \in HostTouches : handleTouchStart(n, touches)
  \/ \E m \in HostMoves : handleMouseMove(m[1], m[2], m[3])
  \/ \E m \in HostMoves : handleTouchMove(m[1], m[2], m[3])
  \/ handleMouseUp
  \/ handleTouchEnd
  \/ handleTouchCancel
  \/ \E ev \in HostEvents, newEvent \in BOOLEAN, newCallback \in BOOLEAN,
        node \in Nodes \cup { NoNode } :
       Render(ev, newEvent, newCallback, node)
  \/ \E ev \in HostEvents, node \in { NoNode, Node1 } : Mount(ev, node)
  \/ Unmount
  \/ PeerMount
  \/ PeerUnmount
  \/ PeerPress
  \/ PeerRender

SpecHost == InitHost /\ [][NextHost]_vars

-----------------------------------------------------------------------------
(* Vocabulary of the claims *)

Releases == { "mouseup", "touchend", "touchcancel" }

\* The PreviewPair as published: set by the last move, reset by a release and
\* by the event effect.
PairExists == Truthy(hookState.previewStart) /\ Truthy(hookState.previewEnd)

\* The step just taken was a release that found a session active.
ReleasedSession == lastEv.type \in Releases /\ lastEv.wasDragging

-----------------------------------------------------------------------------
(* C1 *)

\* C1: a release that finds a session active, a PreviewPair with both fields
\* non-null and a callback supplied invokes the callback exactly once, with
\* that pair; a release that finds no session active (one that follows the
\* release of the session, before the next press) invokes it no more.
C1_CommitOncePerSession ==
  [][ lastEv'.type \in Releases =>
        /\ (draggingRef /\ PairExists /\ onDragEnd)
             => calls' = << << hookState.previewStart, hookState.previewEnd >> >>
        /\ ~draggingRef => calls' = calls ]_vars

-----------------------------------------------------------------------------
(* C2 *)

\* C2: a release delivered while no session is active, or in a session in
\* which no PreviewPair exists (no move since the press), invokes the commit
\* callback zero times.
C2_NoCommitWithoutPreview ==
  [][ (lastEv'.type \in Releases /\ (~draggingRef \/ (~lastEv.moved /\ ~PairExists)))
        => calls' = calls ]_vars

-----------------------------------------------------------------------------
(* C3 *)

\* C3: whenever the published PreviewPair is non-null, previewEnd minus
\* previewStart equals originalEnd minus originalStart, in elapsed time.
C3_DurationPreserved ==
  (Truthy(hookState.previewStart) /\ Truthy(hookState.previewEnd))
    => /\ hookState.previewStart.kind = "date"
       /\ hookState.previewEnd.kind = "date"
       /\ Truthy(originalStartRef) /\ Truthy(originalEndRef)
       /\ hookState.previewEnd.t - hookState.previewStart.t
            = originalEndRef.t - originalStartRef.t

-----------------------------------------------------------------------------
(* C4 *)

\* d is a valid date with the hour and minute of the valid date original.
SameTimeOfDay(d, original) ==
  /\ d.kind = "date"
  /\ original.kind = "date"
  /\ getHours(d.t) = getHours(original.t)
  /\ getMinutes(d.t) = getMinutes(original.t)

\* C4: with lockTime, the hour and minute of every published previewStart and
\* of the committed start are those of originalStart.
C4_LockedTimeOfDay ==
  lockTime =>
    /\ Truthy(hookState.previewStart)
         => SameTimeOfDay(hookState.previewStart, originalStartRef)
    /\ (ReleasedSession /\ calls # << >>)
         => SameTimeOfDay(calls[1][1], originalStartRef)

-----------------------------------------------------------------------------
(* C5 *)

\* The calendar date <<year, month, day>> of a valid Date.
CivilDate(d) == CivilFromDays(Day(d.t))

\* C5: a move over a drop-zone that encodes a valid date publishes a
\* previewStart on exactly that date, whatever the vertical delta and, without
\* lockTime, whatever the horizontal delta.
C5_SnapPrecedence ==
  (~lastMove.isNull /\ lastMove.attr = Attr_2024_03_15)
    => /\ hookState.previewStart.kind = "date"
       /\ CivilDate(hookState.previewStart) = << 2024, 3, 15 >>

\* EventB (23:40) is dragged 30 px right, past midnight, and 150 px down over
\* the drop-zone of 2024-03-15.
C5_Witness ==
  /\ ~lastMove.isNull
  /\ lastMove.attr = Attr_2024_03_15
  /\ lastMove.x = 130 /\ lastMove.y = 250
  /\ ~lockTime
  /\ originalStartRef = DateOf(EventB.start)
  /\ hookState.previewStart = DateOf(MakeLocal(2024, 3, 15, 0, 10))

-----------------------------------------------------------------------------
(* C6 *)

\* n is an integer nearest to a / b (b > 0).
IsNearest(n, a, b) == 2 * (a - n * b) <= b /\ 2 * (n * b - a) <= b

\* C6: with no snap target, a move publishes originalStart shifted by the
\* vertical delta over pxPerDay in whole days and, without lockTime, by the
\* horizontal delta over pxPerMinute in minutes, each rounded to nearest;
\* 1.5 days round to 2 and 0.49 days to 0; the two scenarios of the spec.
C6_DeltaToOffsets ==
  (~lastMove.isNull /\ lastMove.attr = NoAttr) =>
    LET dx == lastMove.x - startPosRef.x
        dy == lastMove.y - startPosRef.y
        got == hookState.previewStart
        shift == got.t - originalStartRef.t
    IN  /\ got.kind = "date"
        /\ \E n \in -10 .. 10, m \in -60 .. 60 :
             /\ IsNearest(n, dy, pxPerDay)
             /\ IF lockTime THEN m = 0 ELSE IsNearest(m, dx, pxPerMinute)
             /\ shift = n * 1440 + m
        /\ (2 * dy = 3 * pxPerDay /\ dx = 0) => shift = 2 * 1440
        /\ (100 * dy = 49 * pxPerDay /\ dx = 0) => shift = 0
        /\ ( /\ originalStartRef = DateOf(EventA.start)
             /\ originalEndRef = DateOf(EventA.end)
             /\ startPosRef = Pos(100, 100)
             /\ pxPerDay = 40 /\ pxPerMinute = 1 /\ ~lockTime )
           => /\ (lastMove.x = 100 /\ lastMove.y = 140)
                   => /\ got = DateOf(MakeLocal(2024, 6, 11, 9, 0))
                      /\ hookState.previewEnd = DateOf(MakeLocal(2024, 6, 11, 10, 0))
              /\ (lastMove.x = 130 /\ lastMove.y = 100)
                   => /\ got = DateOf(MakeLocal(2024, 6, 10, 9, 30))
                      /\ hookState.previewEnd = DateOf(MakeLocal(2024, 6, 10, 10, 30))

\* One and a half days down with no drop-zone under the pointer: two days.
C6_Witness ==
  /\ ~lastMove.isNull
  /\ lastMove.attr = NoAttr
  /\ pxPerDay = 100
  /\ lastMove.x = 100 /\ lastMove.y = 250
  /\ originalStartRef = DateOf(EventA.start)
  /\ hookState.previewStart = DateOf(MakeLocal(2024, 6, 12, 9, 0))

-----------------------------------------------------------------------------
(* C7 *)

\* C7: a move over a drop-zone whose value does not parse to three integers
\* publishes what it would publish with no drop-zone under the pointer.
C7_MalformedIsNoSnap ==
  (~lastMove.isNull /\ lastMove.attr \in MalformedZones)
    => hookState.previewStart = NewStart(lastMove.x, lastMove.y, NoAttr)

-----------------------------------------------------------------------------
(* C8 *)

Inert ==
  /\ ~draggingRef
  /\ startPosRef = NullPos
  /\ ~isDragging /\ ~hookState.isDragging
  /\ previewStart = Null /\ previewEnd = Null
  /\ hookState.previewStart = Null /\ hookState.previewEnd = Null

\* C8: while the source event is absent no press, move or release starts a
\* session, sets isDragging, publishes a preview or invokes the callback.
C8_InertWithoutEvent ==
  [][ (event.isNull /\ event'.isNull /\ Inert) => (Inert' /\ calls' = calls) ]_vars

\* A press was delivered to an engine without event and nothing started.
C8_Witness ==
  /\ event.isNull
  /\ lastEv.type = "press"
  /\ Inert

-----------------------------------------------------------------------------
(* C9 *)

\* C9: a render that binds a new source event while no session is active
\* sets the originals to the new event's start and end and leaves no preview
\* behind, exposed, queued or captured by the listeners.
C9_RebindWhileIdle ==
  [][ (lastEv'.type = "render" /\ event' # event /\ ~event'.isNull /\ ~draggingRef)
        => /\ originalStartRef' = DateOf(event'.start)
           /\ originalEndRef' = DateOf(event'.end)
           /\ previewStart' = Null /\ previewEnd' = Null
           /\ hookState'.previewStart = Null /\ hookState'.previewEnd = Null
           /\ handlers'.previewStart = Null /\ handlers'.previewEnd = Null ]_vars

\* A session on EventA has committed (the pair is an hour long) and the
\* engine, idle, has been bound to EventB.
C9_Witness ==
  /\ lastEv.type = "render"
  /\ ~draggingRef
  /\ event = EventB
  /\ originalStartRef = DateOf(EventB.start)
  /\ calls # << >>
  /\ calls[1][1].kind = "date"
  /\ calls[1][2].t - calls[1][1].t = EventA.end - EventA.start
  /\ previewStart = Null

-----------------------------------------------------------------------------
(* C10 *)

\* C10: a touch-cancel that finds a session active leaves the engine idle,
\* with the anchor cleared and isDragging and the PreviewPair reset, and
\* invokes the callback if and only if a PreviewPair with both fields non-null
\* existed and a callback was supplied.
C10_TouchCancelAsTouchEnd ==
  [][ (lastEv'.type = "touchcancel" /\ draggingRef)
        => /\ ~draggingRef'
           /\ startPosRef' = NullPos
           /\ ~hookState'.isDragging
           /\ hookState'.previewStart = Null /\ hookState'.previewEnd = Null
           /\ (calls' # calls) <=> (PairExists /\ onDragEnd) ]_vars

-----------------------------------------------------------------------------
(* C11 *)

\* No mounted instance is dragging: neither its isDragging cell nor the
\* isDragging its cursor effect last ran with is true.
NoEngineDragging ==
  /\ ~(mounted /\ (hookState.isDragging \/ isDragging))
  /\ ~(peer.mounted /\ (peer.dragging \/ peer.isDragging))

\* C11: whenever no mounted instance is dragging, document.body.style.cursor
\* has the value it had before any drag began (the empty string), whatever
\* drags, releases, mounts and unmounts of the two instances came before.
C11_CursorRestored ==
  NoEngineDragging => cursor = ""

-----------------------------------------------------------------------------
(* C12 *)

\* C12: at most one set of handlers of the instance is attached; the node
\* (mousedown, touchstart) carries one exactly when the window (mousemove,
\* touchmove, mouseup, touchend, touchcancel) does, on the node the cleanup
\* in force will remove it from; no re-run of the listener effect leaves a
\* second one; after the unmount none is left on any node or on the window.
C12_ListenerLifecycle ==
  /\ listeners.window \in { 0, 1 }
  /\ \A n \in Nodes : listeners.node[n] = (IF listeners.el = n THEN 1 ELSE 0)
  /\ listeners.window = (IF listeners.el = NoNode THEN 0 ELSE 1)
  /\ ~mounted => listeners = NoListeners

\* The listener effect has re-run after a preview was published and rendered:
\* one set of handlers, which holds that preview.
C12_Witness ==
  /\ lastEv.type = "render"
  /\ Truthy(handlers.previewStart)
  /\ listeners.window = 1
  /\ listeners.node[Node1] = 1

-----------------------------------------------------------------------------
(* C13 *)

\* The pair that the last move of the session computed.
LastMovePair ==
  LET newStart == NewStart(lastMove.x, lastMove.y, lastMove.attr)
  IN  << newStart, NewEnd(newStart) >>

\* C13: a release of a session in which a move has published a preview
\* passes to the callback the pair computed by the last move, whether or not
\* the host has re-rendered since that move.
C13_CommitsLastMove ==
  [][ (lastEv'.type \in Releases /\ draggingRef /\ ~lastMove.isNull /\ onDragEnd)
        => calls' = << LastMovePair >> ]_vars

-----------------------------------------------------------------------------
(* C14 *)

\* C14: a release leaves the PreviewPair at {null, null}, and the release of
\* a session without a move commits nothing, in particular not the pair of
\* an earlier session, whenever the host re-renders.
C14_PairDiesWithSession ==
  ReleasedSession
    => /\ hookState.previewStart = Null
       /\ hookState.previewEnd = Null
       /\ ~lastEv.moved => calls = << >>

-----------------------------------------------------------------------------
(* C15 *)

\* C15: a mousedown or touchstart on the node while a session is active
\* leaves the anchor, the originals and the PreviewPair as they are.
C15_SecondPressIgnored ==
  [][ (lastEv'.type = "press" /\ draggingRef)
        => /\ startPosRef' = startPosRef
           /\ originalStartRef' = originalStartRef
           /\ originalEndRef' = originalEndRef
           /\ hookState' = hookState ]_vars

-----------------------------------------------------------------------------
(* C16 *)

\* C16: the anchor, originalStart and originalEnd are all set or all null,
\* and they are set exactly while a session is active.
C16_SessionFieldsTogether ==
  /\ (startPosRef = NullPos) <=> (originalStartRef = Null)
  /\ (originalStartRef = Null) <=> (originalEndRef = Null)
  /\ draggingRef <=> (startPosRef # NullPos)

-----------------------------------------------------------------------------
(* C17 *)

\* C17: while a session is active, a render of the host, with a changed
\* event or with a new object for the same event, neither changes the
\* originals in use nor clears the preview in progress.
C17_OriginalsAreSnapshot ==
  [][ (lastEv'.type = "render" /\ draggingRef)
        => /\ originalStartRef' = originalStartRef
           /\ originalEndRef' = originalEndRef
           /\ hookState'.previewStart = hookState.previewStart
           /\ hookState'.previewEnd = hookState.previewEnd ]_vars

-----------------------------------------------------------------------------
(* C18 *)

\* C18: after any sequence of moves of a session the published PreviewPair
\* is the one a single move to the coordinates (and drop-zone) of the last
\* move computes from the anchor and the originals, so a repeated move and a
\* move away and back publish what the direct move publishes; a move
\* delivered while idle leaves the PreviewPair as it is.
C18_MoveIdempotent ==
  [][ lastEv'.type = "move"
        => /\ ~lastMove'.isNull
                => << hookState'.previewStart, hookState'.previewEnd >> = LastMovePair'
           /\ ~draggingRef => hookState' = hookState ]_vars

\* A move away from the anchor has been rendered and a move back to the
\* anchor has published the original start again.
C18_Witness ==
  /\ lastEv.type = "move"
  /\ ~lastMove.isNull
  /\ lastMove.x = startPosRef.x /\ lastMove.y = startPosRef.y
  /\ lastMove.attr = NoAttr
  /\ Truthy(previewStart)
  /\ previewStart # originalStartRef
  /\ hookState.previewStart = originalStartRef

-----------------------------------------------------------------------------
(* C19 *)

\* C19: a mousedown with a button other than the primary one, or a
\* touchstart with more than one touch point, starts no session: the active
\* flag, isDragging and the anchor stay as they are.
C19_PrimaryPressOnly ==
  [][ (lastEv'.type = "press" /\ ~lastEv'.primary)
        => /\ draggingRef' = draggingRef
           /\ hookState'.isDragging = hookState.isDragging
           /\ startPosRef' = startPosRef ]_vars

-----------------------------------------------------------------------------
(* C20 *)

\* C20: once a node is bound through dragRef and the effects of that render
\* have run, the press listeners are on that node and on no other, whether
\* the node was bound at the first render, later, or in place of another.
C20_ListenersOnBoundNode ==
  (mounted /\ nodeRef # NoNode)
    => \A n \in Nodes : OnNode(n) <=> (n = nodeRef)

====
